---- MODULE Spec2Model ----
(***************************************************************************)
(* Model of aws_policy_generator/cli.py: the interactive selection loop of *)
(* main, the placeholder embedding of variables_embeder and the statement  *)
(* writer of policy_writer.                                                *)
(*                                                                         *)
(* Strings are sequences of one-character strings, so that str.replace and *)
(* re.sub are computed character by character. An Optional[T] is a         *)
(* sequence of length at most one: None is << >> and a present value v is  *)
(* <<v>>.                                                                  *)
(***************************************************************************)
EXTENDS Integers, Sequences, FiniteSets, TLC

VARIABLES
    region,       \* main: region (Optional[str]), cli.py:152
    account_id,   \* main: account_id (Optional[str]), cli.py:154-159
    catalog_file, \* what load_policies will read from the cache file or the URL
    policies,     \* main: policies.service_map, ordered <<key, Service>> pairs
    buffer,       \* main: buffer (StringIO), a sequence of printed lines
    insert_end,   \* main: insert_end
    pc,           \* where main is: LOAD, AWAIT_SERVICE, AWAIT_ACTIONS, DONE, ABORT
    candidates,   \* the candidate list handed to fzf.prompt by the pending prompt
    service,      \* main: service (Optional[Service]) of the running iteration
    last,         \* the outcome of the latest fzf.prompt call
    picks,        \* history: the (service, actions) pairs that reached write_policy
    stdout,       \* what print(buffer.getvalue()) wrote (Optional[buffer])
    error         \* the exception that left main (Optional[str])

vars == <<region, account_id, catalog_file, policies, buffer, insert_end, pc, candidates,
          service, last, picks, stdout, error>>

----------------------------------------------------------------------------
(* Bounds of the model *)

\* The loop of main is cut after this many written statements.
MaxStatements == 2

\* fzf returns at most this many lines for a single-select prompt.
MaxNames == 1

----------------------------------------------------------------------------
(* Optional values and strings *)

None == << >>

Some(v) == <<v>>

\* str.replace(old, new): left to right, non-overlapping.
RECURSIVE Replace(_, _, _)
Replace(s, old, new) ==
    IF Len(s) < Len(old) THEN s
    ELSE IF SubSeq(s, 1, Len(old)) = old
         THEN new \o Replace(SubSeq(s, Len(old) + 1, Len(s)), old, new)
         ELSE <<s[1]>> \o Replace(Tail(s), old, new)

\* "sub in s" for strings.
Contains(s, sub) ==
    \E i \in 1..(Len(s) - Len(sub) + 1) : SubSeq(s, i, i + Len(sub) - 1) = sub

\* f'<{key}>' of rep
Angle(key) == <<"<">> \o key \o <<">">>

\* f'{{{key}}}' of rep
Brace(key) == <<"{">> \o key \o <<"}">>

----------------------------------------------------------------------------
(* The keys embed_variables passes to rep, in the order of the calls *)

K_region == <<"r","e","g","i","o","n">>
K_Account == <<"A","c","c","o","u","n","t">>
K_AccountId == <<"A","c","c","o","u","n","t","I","d">>
K_account == <<"a","c","c","o","u","n","t">>
K_accountId == <<"a","c","c","o","u","n","t","I","d">>
K_account_id == <<"a","c","c","o","u","n","t","_","i","d">>
K_account_ID == <<"a","c","c","o","u","n","t","_","I","D">>
K_account_Id == <<"a","c","c","o","u","n","t","_","I","d">>

\* rep with a missing value erases the placeholder (mutant of rep).
rep_erasing(source, key, value) ==
    LET v == IF value = None THEN <<>> ELSE value[1]
    IN  Replace(Replace(source, Angle(key), v), Brace(key), v)

\* rep of embed_variables
rep(source, key, value) ==
    IF value = None THEN source
    ELSE Replace(Replace(source, Angle(key), value[1]), Brace(key), value[1])

\* embed_variables of variables_embeder(region, account_id): every call of
\* rep is given region; account_id is never read.
embed_variables(reg, acc, fmt) ==
    LET f1 == rep(fmt, K_region, reg)
        f2 == rep(f1, K_Account, reg)
        f3 == rep(f2, K_AccountId, reg)
        f4 == rep(f3, K_account, reg)
        f5 == rep(f4, K_accountId, reg)
        f6 == rep(f5, K_account_id, reg)
        f7 == rep(f6, K_account_ID, reg)
        f8 == rep(f7, K_account_Id, reg)
    IN  f8

----------------------------------------------------------------------------
(* Words used by the catalogs, the runtime values and the picker *)

Str_end == <<"e","n","d">>
Str_star == <<"*">>
Str_s3 == <<"s","3">>
Str_ec2 == <<"e","c","2">>
Str_Get == <<"G","e","t">>
Str_Put == <<"P","u","t">>
Str_Run == <<"R","u","n">>
Str_AmazonS3 == <<"A"," ","S","3">>
Str_Bracketed == <<"k"," ","[","x","]">>
Str_Stale == <<"o","l","d"," ","[","o","]">>
Str_us_east_1 == <<"u","s","-","e","a","s","t","-","1">>
Str_123 == <<"1","2","3">>
Str_Nested == <<"a","{","r","e","g","i","o","n","}">>
K_REGION == <<"R","E","G","I","O","N">>
K_Region == <<"R","e","g","i","o","n">>
K_ACCOUNT_ID == <<"A","C","C","O","U","N","T","_","I","D">>

\* "arn:aws:ec2:<region>:<account_id>:instance/*"
Pat_ec2_instance ==
    <<"a","r","n",":","a","w","s",":","e","c","2",":">> \o Angle(K_region)
    \o <<":">> \o Angle(K_account_id)
    \o <<":","i","n","s","t","a","n","c","e","/","*">>

\* "arn:aws:s3:::*"
Pat_s3 == <<"a","r","n",":","a","w","s",":","s","3",":",":",":","*">>

\* The resource patterns (Service.arn_format) the catalogs are drawn from.
Patterns ==
    { Pat_ec2_instance,
      Pat_s3,
      <<"x",":">> \o Angle(K_region) \o <<":">> \o Brace(K_region),
      <<"$">> \o Brace(K_region) \o <<":">> \o <<"$">> \o Brace(K_Account),
      Angle(K_REGION) \o <<":">> \o Brace(K_Region),
      Angle(K_ACCOUNT_ID),
      Angle(K_account_id),
      Brace(K_accountId) \o <<":">> \o Angle(K_Account),
      Angle(K_region) \o Angle(K_REGION) }

\* The values main can read for region (cli.py:152) and account_id (155-159).
RegionValues == { None, Some(Str_us_east_1), Some(Str_Nested) }

AccountValues == { None, Some(Str_123) }

----------------------------------------------------------------------------
(* Catalog: Policies.service_map as an ordered sequence of <<key, Service>> *)

Service(prefix, acts, fmt) ==
    [string_prefix |-> prefix, actions |-> acts, arn_format |-> fmt]

\* Two-service catalogs for the selection loop; the second key may itself
\* hold brackets.
Catalogs ==
    { << <<Str_AmazonS3, Service(Str_s3, <<Str_Get, Str_Put>>, fmt)>>,
         <<key2, Service(Str_ec2, <<Str_Run>>, None)>> >> :
        fmt \in {None, Some(Pat_s3)},
        key2 \in {Str_ec2, Str_Bracketed} }

\* One-service catalogs, one for every resource pattern and for none.
PatternCatalogs ==
    { << <<Str_AmazonS3, Service(Str_s3, <<Str_Get>>, fmt)>> >> :
        fmt \in {None} \cup {Some(p) : p \in Patterns} }

\* dict.get(key): the Service stored under key, or None.
Get(service_map, key) ==
    LET hits == {i \in 1..Len(service_map) : service_map[i][1] = key}
    IN  IF hits = {} THEN None
        ELSE Some(service_map[CHOOSE i \in hits : TRUE][2])

----------------------------------------------------------------------------
(* select_menu and input_service *)

\* select_menu handing back whatever fzf.prompt returned (mutant of
\* select_menu).
select_menu_raw(result) == Some(result)

\* select_menu: an empty result of fzf.prompt becomes None.
select_menu(result) == IF result = <<>> THEN None ELSE Some(result)

\* f'{kv[0]} [{kv[1].string_prefix}]'
Label(kv) == kv[1] \o <<" ","[">> \o kv[2].string_prefix \o <<"]">>

\* The candidate list input_service hands to select_menu, sentinel always
\* inserted (mutant of ServiceCandidates).
ServiceCandidates_always(service_map, ie) ==
    <<Str_end>> \o [i \in 1..Len(service_map) |-> Label(service_map[i])]

\* The candidate list input_service hands to select_menu.
ServiceCandidates(service_map, ie) ==
    LET services == [i \in 1..Len(service_map) |-> Label(service_map[i])]
    IN  IF ie THEN <<Str_end>> \o services ELSE services

\* re.sub(r'\s*\[.+\]$', '', name): the leftmost match starts at the
\* whitespace run before the first "[" that has at least one character
\* between it and a final "]"; the match runs to the end of the string.
StripSuffix(name) ==
    LET n == Len(name)
        opens == {b \in 1..n : name[b] = "[" /\ b + 2 <= n /\ name[n] = "]"}
    IN  IF opens = {} THEN name
        ELSE LET b == CHOOSE x \in opens : \A y \in opens : x <= y
                 starts == {i \in 1..b : \A j \in i..(b - 1) : name[j] = " "}
                 i == CHOOSE x \in starts : \A y \in starts : x <= y
             IN  SubSeq(name, 1, i - 1)

\* The services found for the names, in the order of the names.
RECURSIVE Found(_, _)
Found(service_map, names) ==
    IF names = <<>> THEN <<>>
    ELSE Get(service_map, StripSuffix(Head(names))) \o Found(service_map, Tail(names))

\* input_service falling back to the first catalog entry when no name
\* resolves (mutant of input_service).
input_service_fallback(service_map, ie, raw) ==
    LET service_names == select_menu(raw)
    IN  IF service_names = None THEN None
        ELSE IF ie /\ service_names[1] = <<Str_end>> THEN None
        ELSE LET result == Found(service_map, service_names[1])
             IN  IF result = <<>> THEN Some(service_map[1][2]) ELSE Some(result[1])

\* input_service, given what fzf.prompt returned.
input_service(service_map, ie, raw) ==
    LET service_names == select_menu(raw)
    IN  IF service_names = None THEN None
        ELSE IF ie /\ service_names[1] = <<Str_end>> THEN None
        ELSE LET result == Found(service_map, service_names[1])
             IN  IF result = <<>> THEN None ELSE Some(result[1])

\* input_actions, given what fzf.prompt returned.
input_actions(raw) == select_menu(raw)

----------------------------------------------------------------------------
(* The document: write_policy_header and write_policy *)

Line(f, a) == [fmt |-> f, args |-> a]

\* The header without its "Statement:" line (mutant of
\* write_policy_header).
write_policy_header_short(file) ==
    file \o << Line("    PolicyDocument:", <<>>),
               Line("      Version: 2012-10-17", <<>>) >>

\* write_policy_header(file)
write_policy_header(file) ==
    file \o << Line("    PolicyDocument:", <<>>),
               Line("      Version: 2012-10-17", <<>>),
               Line("      Statement:", <<>>) >>

\* The action lines printed last-selected first (mutant of ActionLines).
ActionLines_reversed(svc, actions) ==
    [i \in 1..Len(actions) |->
        Line("            - {service.string_prefix}:{action}",
             <<svc.string_prefix, actions[Len(actions) + 1 - i]>>)]

\* The "- prefix:action" lines of write_policy.
ActionLines(svc, actions) ==
    [i \in 1..Len(actions) |->
        Line("            - {service.string_prefix}:{action}",
             <<svc.string_prefix, actions[i]>>)]

\* The block with the embedder applied to whatever arn_format holds, an
\* absent one read as the empty string (mutant of StatementLines).
StatementLines_always_embedded(reg, acc, svc, actions) ==
    LET fmt == IF svc.arn_format # None THEN svc.arn_format[1] ELSE <<>>
    IN  << Line("        - Effect: Allow", <<>>),
           Line("          Resource: '{arn}'", <<embed_variables(reg, acc, fmt)>>),
           Line("          Action:", <<>>) >>
        \o ActionLines(svc, actions)

\* The lines of one statement block.
StatementLines(reg, acc, svc, actions) ==
    LET arn == IF svc.arn_format # None
               THEN embed_variables(reg, acc, svc.arn_format[1])
               ELSE Str_star
    IN  << Line("        - Effect: Allow", <<>>),
           Line("          Resource: '{arn}'", <<arn>>),
           Line("          Action:", <<>>) >>
        \o ActionLines(svc, actions)

\* write_policy putting the block right after the header (mutant of
\* write_policy).
write_policy_front(reg, acc, svc, actions, file) ==
    SubSeq(file, 1, 3) \o StatementLines(reg, acc, svc, actions)
    \o SubSeq(file, 4, Len(file))

\* write_policy of policy_writer(embeder), embeder = variables_embeder(reg, acc)
write_policy(reg, acc, svc, actions, file) ==
    file \o StatementLines(reg, acc, svc, actions)

----------------------------------------------------------------------------
(* The picker: what fzf.prompt can hand back or raise *)

\* Sequences over S of length 1..n.
RECURSIVE SeqsUpTo(_, _)
SeqsUpTo(S, n) ==
    IF n = 0 THEN {}
    ELSE {<<x>> : x \in S}
         \cup {Append(q, x) : q \in SeqsUpTo(S, n - 1), x \in S}

Range(q) == {q[i] : i \in 1..Len(q)}

\* Single-select: nothing, or lines of the candidate list; a line the
\* catalog no longer knows stands for a stale label.
ServiceResults(cands) ==
    {<<>>} \cup SeqsUpTo(Range(cands) \cup {Str_Stale}, MaxNames)

\* Multi-select: nothing, or distinct candidate lines in selection order.
ActionsResults(cands) ==
    {<<>>} \cup {q \in SeqsUpTo(Range(cands), Len(cands)) :
                    \A i, j \in 1..Len(q) : q[i] = q[j] => i = j}

\* What fzf.prompt raises: plumbum's ProcessExecutionError when fzf exits
\* non-zero (interrupt), anything else when the process cannot run.
Interrupt == "ProcessExecutionError"
Crash == "CommandNotFound"

NoPrompt == [prompt |-> "none", outcome |-> "none", raw |-> <<>>]

----------------------------------------------------------------------------
(* main *)

\* main's try/except letting the interrupt through (mutant of main_except).
main_except_none(exc) == FALSE

\* main catching every exception, "except Exception" (mutant of
\* main_except).
main_except_all(exc) == TRUE

\* main's except clause: is exc caught?
main_except(exc) == exc = "ProcessExecutionError"

\* "if service is None" left out: the loop goes on to input_actions(None)
\* (mutant of main_service_break).
main_service_break_never(svc) == FALSE

\* main: "if service is None: break"
main_service_break(svc) == svc = None

\* main: "if actions is None: break"
main_actions_break(actions) == actions = None

\* main: "insert_end = True" after write_policy
main_flag(ie) == TRUE

\* main up to the call of load_policies (cli.py:147-166), for the given
\* runtime values and catalogs.
InitWith(regions, accounts, catalogs) ==
    /\ region \in regions
    /\ account_id \in accounts
    /\ catalog_file \in catalogs
    /\ policies = <<>>
    /\ buffer = write_policy_header(<<>>)
    /\ insert_end = FALSE
    /\ pc = "LOAD"
    /\ candidates = <<>>
    /\ service = None
    /\ last = NoPrompt
    /\ picks = <<>>
    /\ stdout = None
    /\ error = None

\* The selection loop over two-service catalogs.
Init == InitWith({None, Some(Str_us_east_1)}, AccountValues, Catalogs)

\* The embedding over every resource pattern and every runtime value.
InitEmbed == InitWith(RegionValues, AccountValues, PatternCatalogs)

\* The loop is left: print(buffer.getvalue()).
Finish ==
    /\ pc' = "DONE"
    /\ stdout' = Some(buffer)
    /\ candidates' = <<>>
    /\ UNCHANGED <<buffer, insert_end, error>>

\* An exception raised by fzf.prompt inside the try block.
Raise(exc) ==
    IF main_except(exc)
    THEN Finish
    ELSE /\ pc' = "ABORT"
         /\ error' = Some(exc)
         /\ candidates' = <<>>
         /\ UNCHANGED <<buffer, insert_end, stdout>>

\* load_policies succeeds; the loop issues its first service prompt.
LoadOk ==
    /\ pc = "LOAD"
    /\ policies' = catalog_file
    /\ candidates' = ServiceCandidates(catalog_file, FALSE)
    /\ insert_end' = FALSE
    /\ pc' = "AWAIT_SERVICE"
    /\ UNCHANGED <<region, account_id, catalog_file, buffer, service, last, picks,
                   stdout, error>>

\* load_policies raises (no cache and no network, or unreadable JSON).
LoadFail ==
    /\ pc = "LOAD"
    /\ pc' = "ABORT"
    /\ error' = Some("LoadError")
    /\ UNCHANGED <<region, account_id, catalog_file, policies, buffer, insert_end, candidates,
                   service, last, picks, stdout>>

\* fzf.prompt returns at the service prompt: input_service, then main's
\* test, then the actions prompt is issued or the loop is left. Reading
\* service.actions of None raises AttributeError, which main does not catch.
ServiceReturns ==
    /\ pc = "AWAIT_SERVICE"
    /\ \E raw \in ServiceResults(candidates) :
        LET svc == input_service(policies, insert_end, raw)
        IN  /\ last' = [prompt |-> "service", outcome |-> "result", raw |-> raw]
            /\ service' = svc
            /\ IF main_service_break(svc)
               THEN Finish
               ELSE IF svc = None
               THEN Raise("AttributeError")
               ELSE /\ Len(picks) < MaxStatements
                    /\ candidates' = svc[1].actions
                    /\ pc' = "AWAIT_ACTIONS"
                    /\ UNCHANGED <<buffer, insert_end, stdout, error>>
    /\ UNCHANGED <<region, account_id, catalog_file, policies, picks>>

\* fzf exits non-zero at the service prompt.
ServiceInterrupted ==
    /\ pc = "AWAIT_SERVICE"
    /\ last' = [prompt |-> "service", outcome |-> Interrupt, raw |-> <<>>]
    /\ Raise(Interrupt)
    /\ UNCHANGED <<region, account_id, catalog_file, policies, service, picks>>

\* fzf cannot be run at the service prompt.
ServiceCrashed ==
    /\ pc = "AWAIT_SERVICE"
    /\ last' = [prompt |-> "service", outcome |-> Crash, raw |-> <<>>]
    /\ Raise(Crash)
    /\ UNCHANGED <<region, account_id, catalog_file, policies, service, picks>>

\* fzf.prompt returns at the actions prompt: input_actions, main's test,
\* write_policy, the flag, and the next service prompt. picks records the
\* pick when the picker handed back a selection.
ActionsReturns ==
    /\ pc = "AWAIT_ACTIONS"
    /\ \E raw \in ActionsResults(candidates) :
        LET actions == input_actions(raw)
        IN  /\ last' = [prompt |-> "actions", outcome |-> "result", raw |-> raw]
            /\ IF main_actions_break(actions)
               THEN Finish
               ELSE /\ buffer' = write_policy(region, account_id, service[1],
                                              actions[1], buffer)
                    /\ insert_end' = main_flag(insert_end)
                    /\ candidates' = ServiceCandidates(policies, insert_end')
                    /\ pc' = "AWAIT_SERVICE"
                    /\ UNCHANGED <<stdout, error>>
            /\ picks' = IF raw = <<>> THEN picks
                        ELSE Append(picks, [service |-> service[1], actions |-> raw])
    /\ UNCHANGED <<region, account_id, catalog_file, policies, service>>

\* fzf exits non-zero at the actions prompt.
ActionsInterrupted ==
    /\ pc = "AWAIT_ACTIONS"
    /\ last' = [prompt |-> "actions", outcome |-> Interrupt, raw |-> <<>>]
    /\ Raise(Interrupt)
    /\ UNCHANGED <<region, account_id, catalog_file, policies, service, picks>>

\* fzf cannot be run at the actions prompt.
ActionsCrashed ==
    /\ pc = "AWAIT_ACTIONS"
    /\ last' = [prompt |-> "actions", outcome |-> Crash, raw |-> <<>>]
    /\ Raise(Crash)
    /\ UNCHANGED <<region, account_id, catalog_file, policies, service, picks>>

Next ==
    \/ LoadOk
    \/ LoadFail
    \/ ServiceReturns
    \/ ServiceInterrupted
    \/ ServiceCrashed
    \/ ActionsReturns
    \/ ActionsInterrupted
    \/ ActionsCrashed

Spec == Init /\ [][Next]_vars

SpecEmbed == InitEmbed /\ [][Next]_vars

----------------------------------------------------------------------------
(* Reading the document back *)

EffectFmt == "        - Effect: Allow"
ResourceFmt == "          Resource: '{arn}'"

\* Number of statement blocks in a buffer.
NumStatements(file) == Cardinality({i \in 1..Len(file) : file[i].fmt = EffectFmt})

\* The resource expressions of the statement blocks, in document order.
RECURSIVE Resources(_)
Resources(file) ==
    IF file = <<>> THEN <<>>
    ELSE (IF Head(file).fmt = ResourceFmt THEN <<Head(file).args[1]>> ELSE <<>>)
         \o Resources(Tail(file))

\* The document that holds one block per recorded pick, in pick order.
RECURSIVE BlocksOf(_)
BlocksOf(ps) ==
    IF ps = <<>> THEN <<>>
    ELSE StatementLines(region, account_id, Head(ps).service, Head(ps).actions)
         \o BlocksOf(Tail(ps))

ExpectedBuffer == write_policy_header(<<>>) \o BlocksOf(picks)

InLoop == pc \in {"AWAIT_SERVICE", "AWAIT_ACTIONS"}

\* The step is fzf.prompt returning raw at the given prompt.
Returned(prompt) ==
    /\ InLoop
    /\ last'.prompt = prompt
    /\ last'.outcome = "result"

\* The step is fzf.prompt raising the interrupt.
Interrupted == InLoop /\ last'.outcome = Interrupt

\* No entry of the catalog is found for any of the returned labels.
Unresolved(raw) ==
    \A i \in 1..Len(raw) : Get(policies, StripSuffix(raw[i])) = None

----------------------------------------------------------------------------
(* Claims about the selection loop *)

\* C1: the document holds exactly one statement block per completed pick
\* (a resolved service followed by a non-empty action selection), in the
\* order the picks were completed; nothing is reordered, merged or dropped,
\* and cancelled or unresolved selections add nothing.
C1_StatementOrdering ==
    /\ buffer = ExpectedBuffer
    /\ NumStatements(buffer) = Len(picks)
    /\ stdout # None => stdout[1] = ExpectedBuffer

\* C1 witness: the loop has ended after the same service was picked twice.
C1_Witness ==
    /\ pc = "DONE"
    /\ Len(picks) = 2
    /\ picks[1].service = picks[2].service
    /\ picks[1].actions # picks[2].actions
    /\ NumStatements(stdout[1]) = 2

\* C2: at every service prompt the candidate list holds "end", as its first
\* element, if and only if a statement has already been appended.
C2_SentinelGating ==
    pc = "AWAIT_SERVICE" =>
        /\ (Str_end \in Range(candidates)) <=> (NumStatements(buffer) >= 1)
        /\ (Str_end \in Range(candidates)) <=> (Len(picks) >= 1)
        /\ NumStatements(buffer) >= 1 => candidates[1] = Str_end

\* C2 witness: a service prompt issued after a first statement.
C2_Witness ==
    /\ pc = "AWAIT_SERVICE"
    /\ NumStatements(buffer) = 1
    /\ candidates[1] = Str_end

\* C3: an interrupt raised by the picker at either prompt ends the loop as
\* a normal exit: nothing propagates, and the printed document is the one
\* accumulated before the interrupt.
C3_InterruptEndsLoop ==
    [][Interrupted =>
        /\ pc' = "DONE"
        /\ error' = None
        /\ buffer' = buffer
        /\ stdout' = Some(buffer)
        /\ buffer = ExpectedBuffer]_vars

\* C3 witness: an interrupt at the actions prompt after a completed pick.
C3_Witness ==
    /\ last.prompt = "actions"
    /\ last.outcome = Interrupt
    /\ Len(picks) >= 1
    /\ pc = "DONE"

\* C4: no selection at the service prompt moves the loop to DONE and keeps
\* every statement accumulated so far.
C4_ServiceCancelKeepsDocument ==
    [][(Returned("service") /\ last'.raw = <<>>) =>
        /\ pc' = "DONE"
        /\ error' = None
        /\ buffer' = buffer
        /\ stdout' = Some(buffer)
        /\ buffer = ExpectedBuffer]_vars

\* C4 witness: the service prompt is cancelled after a completed pick.
C4_Witness ==
    /\ last.prompt = "service"
    /\ last.outcome = "result"
    /\ last.raw = <<>>
    /\ Len(picks) >= 1
    /\ pc = "DONE"

\* C5: no selection at the actions prompt moves the loop to DONE, drops the
\* in-flight service, and leaves the document and the has-selected flag as
\* they were before that service was picked.
C5_ActionsCancelDiscardsPick ==
    [][(Returned("actions") /\ last'.raw = <<>>) =>
        /\ pc' = "DONE"
        /\ buffer' = buffer
        /\ buffer = ExpectedBuffer
        /\ picks' = picks
        /\ insert_end' = insert_end
        /\ stdout' = Some(buffer)]_vars

\* C5 witness: the actions prompt is cancelled with a service in flight.
C5_Witness ==
    /\ last.prompt = "actions"
    /\ last.outcome = "result"
    /\ last.raw = <<>>
    /\ service # None
    /\ pc = "DONE"

\* C6: a returned label that maps to no catalog key after suffix stripping
\* ends the loop like a cancellation: no actions prompt, no statement, no
\* error.
C6_UnresolvedLabelEndsLoop ==
    [][(Returned("service") /\ last'.raw # <<>> /\ Unresolved(last'.raw)) =>
        /\ pc' = "DONE"
        /\ error' = None
        /\ buffer' = buffer
        /\ picks' = picks
        /\ stdout' = Some(buffer)]_vars

\* C6 witness: a stale label was returned at the first service prompt.
C6_Witness ==
    /\ last.prompt = "service"
    /\ last.raw = <<Str_Stale>>
    /\ ~insert_end
    /\ pc = "DONE"

----------------------------------------------------------------------------
(* Claims about the placeholder embedding *)

\* The <<arn_format, written resource>> pairs of the statements written for
\* services that have an arn_format.
Written ==
    LET res == Resources(buffer)
    IN  { <<picks[i].service.arn_format[1], res[i]>> :
            i \in {j \in 1..Len(picks) :
                     j <= Len(res) /\ picks[j].service.arn_format # None} }

\* The placeholder tokens rep is asked to replace for the account keys.
AccountTokens ==
    UNION { {Angle(k), Brace(k)} :
            k \in {K_Account, K_AccountId, K_account, K_accountId,
                   K_account_id, K_account_ID, K_account_Id} }

\* Region placeholder tokens, in the letter cases the catalogs use.
RegionTokens ==
    UNION { {Angle(k), Brace(k)} : k \in {K_region, K_REGION, K_Region} }

\* Letter-case variants that are not spelled like any key of embed_variables.
OtherCaseRegionTokens == {Angle(K_REGION), Brace(K_Region)}

\* A runtime value with no placeholder punctuation of its own.
PlainValue(v) == \A i \in 1..Len(v) : v[i] \notin {"<", ">", "{", "}", "$"}

\* C7 (as claimed): a replaced placeholder becomes a dynamic substitution
\* marker, never the literal runtime value: a written resource whose pattern
\* has a region placeholder does not contain the region value (unless the
\* pattern already did).
C7_NeverLiteralValue ==
    \A w \in Written :
        ( /\ region # None
          /\ PlainValue(region[1])
          /\ Contains(w[1], Angle(K_region)) \/ Contains(w[1], Brace(K_region))
          /\ ~Contains(w[1], region[1]) )
        => ~Contains(w[2], region[1])

\* C8 (as claimed): an account placeholder is replaced if and only if
\* account_id is present, whatever region is.
C8_AccountFollowsAccountId ==
    \A w \in Written : \A tok \in AccountTokens :
        Contains(w[1], tok) =>
            IF account_id = None THEN Contains(w[2], tok) ELSE ~Contains(w[2], tok)

\* C9: when region is absent, every region placeholder token of the pattern
\* is still in the written resource, whatever account_id is.
C9_AbsentRegionKeepsToken ==
    \A w \in Written : \A tok \in RegionTokens :
        (region = None /\ Contains(w[1], tok)) => Contains(w[2], tok)

\* C9 witness: a statement was written from a pattern with a region
\* placeholder while region is absent and account_id is present.
C9_Witness ==
    /\ region = None
    /\ account_id # None
    /\ \E w \in Written : Contains(w[1], Angle(K_region))

\* C10 (as claimed, for the region key): every letter-case variant of the
\* region placeholder is recognized and replaced when region is present.
C10_CaseInsensitiveTokens ==
    \A w \in Written : \A tok \in OtherCaseRegionTokens :
        (region # None /\ PlainValue(region[1]) /\ Contains(w[1], tok))
        => ~Contains(w[2], tok)

----------------------------------------------------------------------------
(* Claims about labels, output and statements *)

\* C11 (as claimed): the label built for a catalog entry strips back to its
\* key, so a returned catalog label resolves to the service it was built
\* from, also for keys that hold spaces or brackets.
C11_LabelRoundTrip ==
    \A i \in 1..Len(policies) :
        (last.prompt = "service" /\ last.raw = <<Label(policies[i])>>) =>
            /\ StripSuffix(last.raw[1]) = policies[i][1]
            /\ service = Some(policies[i][2])

\* C12: the document is printed only when the loop has ended cleanly, and
\* then it is the accumulated document; a failure of load_policies or of the
\* picker other than the interrupt leaves main with nothing printed.
C12_OutputDiscipline ==
    /\ stdout # None =>
        /\ pc = "DONE"
        /\ error = None
        /\ last.outcome \in {"result", Interrupt}
        /\ stdout[1] = buffer
        /\ NumStatements(stdout[1]) = Len(picks)
    /\ pc = "DONE" => stdout # None
    /\ (pc = "ABORT" \/ last.outcome = Crash) =>
        /\ pc = "ABORT"
        /\ error # None
        /\ stdout = None

\* C12 witness: the picker fails during the loop, after a statement was
\* written, and nothing has been printed.
C12_Witness ==
    /\ pc = "ABORT"
    /\ error = Some(Crash)
    /\ NumStatements(buffer) >= 1
    /\ stdout = None

ActionHeadFmt == "          Action:"
ActionFmt == "            - {service.string_prefix}:{action}"

\* C13: every statement block of the document has at least one action
\* line.
C13_NoEmptyStatement ==
    \A i \in 1..Len(buffer) :
        buffer[i].fmt = ActionHeadFmt =>
            /\ i < Len(buffer)
            /\ buffer[i + 1].fmt = ActionFmt

\* C13 witness: the actions prompt came back empty after a statement had
\* been written.
C13_Witness ==
    /\ last.prompt = "actions"
    /\ last.outcome = "result"
    /\ last.raw = <<>>
    /\ NumStatements(buffer) >= 1

\* C14: "end" returned at the service prompt after a completed pick moves
\* the loop to DONE, with no actions prompt and the document unchanged.
C14_EndSentinelEndsLoop ==
    [][(Returned("service") /\ insert_end /\ last'.raw = <<Str_end>>) =>
        /\ pc' = "DONE"
        /\ error' = None
        /\ buffer' = buffer
        /\ picks' = picks
        /\ stdout' = Some(buffer)]_vars

\* C14 witness: "end" was returned after two completed picks.
C14_Witness ==
    /\ last.prompt = "service"
    /\ last.raw = <<Str_end>>
    /\ Len(picks) = 2
    /\ pc = "DONE"

\* C15 (as claimed): embedding again what was embedded changes nothing,
\* also when a runtime value holds placeholder-like text.
C15_IdempotentEmbedding ==
    \A w \in Written : embed_variables(region, account_id, w[2]) = w[2]

\* The rendered "prefix:action" strings of every statement block, block by
\* block, in document order.
RECURSIVE StatementActions(_)
StatementActions(file) ==
    IF file = <<>> THEN <<>>
    ELSE LET l == file[Len(file)]
             g == StatementActions(SubSeq(file, 1, Len(file) - 1))
         IN  IF l.fmt = EffectFmt THEN Append(g, <<>>)
             ELSE IF l.fmt = ActionFmt /\ g # <<>>
             THEN [g EXCEPT ![Len(g)] = Append(@, l.args[1] \o <<":">> \o l.args[2])]
             ELSE g

\* C16: the action list of statement i is string_prefix + ":" + a for each
\* a of the i-th selection the picker returned, same length, same order.
C16_QualifiedActionsInOrder ==
    LET acts == StatementActions(buffer)
    IN  /\ Len(acts) = Len(picks)
        /\ \A i \in 1..Len(picks) :
            acts[i] = [j \in 1..Len(picks[i].actions) |->
                          picks[i].service.string_prefix \o <<":">>
                          \o picks[i].actions[j]]

\* C16 witness: a statement was written for a selection made in the
\* reverse of the catalog order.
C16_Witness ==
    /\ Len(picks) >= 1
    /\ picks[1].actions = <<Str_Put, Str_Get>>
    /\ NumStatements(buffer) >= 1

\* C17: a statement written for a service without arn_format has the
\* resource "*", whatever region and account_id are.
C17_WildcardDefault ==
    LET res == Resources(buffer)
    IN  \A i \in 1..Len(picks) :
            picks[i].service.arn_format = None =>
                /\ i <= Len(res)
                /\ res[i] = Str_star

\* C17 witness: such a statement was written with both runtime values
\* present.
C17_Witness ==
    /\ region # None
    /\ account_id # None
    /\ Len(picks) >= 1
    /\ picks[1].service.arn_format = None
    /\ NumStatements(buffer) >= 1

\* C18: cancelling the very first service prompt (nothing selected, or the
\* interrupt) ends main normally with a printed document of the three
\* header lines and no statement block.
C18_FirstPromptCancelHeaderOnly ==
    ( /\ last.prompt = "service"
      /\ \/ last.outcome = "result" /\ last.raw = <<>>
         \/ last.outcome = Interrupt
      /\ ~insert_end )
    => /\ pc = "DONE"
       /\ error = None
       /\ stdout = Some(<< Line("    PolicyDocument:", <<>>),
                           Line("      Version: 2012-10-17", <<>>),
                           Line("      Statement:", <<>>) >>)

\* C18 witness: the first service prompt came back empty.
C18_Witness ==
    /\ last.prompt = "service"
    /\ last.outcome = "result"
    /\ last.raw = <<>>
    /\ ~insert_end
    /\ pc = "DONE"

\* C19: an actions prompt is issued only by a service prompt that resolved
\* a returned label to a catalog service, with that service's actions as
\* candidates; the statement written next carries that service's prefix and
\* resource; and a service prompt is never followed by a service prompt.
C19_PromptsAlternate ==
    [][ /\ pc = "AWAIT_SERVICE" => pc' \in {"AWAIT_ACTIONS", "DONE", "ABORT"}
        /\ pc' = "AWAIT_ACTIONS" =>
            /\ pc = "AWAIT_SERVICE"
            /\ last'.prompt = "service"
            /\ service' # None
            /\ \E i \in 1..Len(policies) : service'[1] = policies[i][2]
            /\ \E j \in 1..Len(last'.raw) :
                  Get(policies, StripSuffix(last'.raw[j])) = service'
            /\ candidates' = service'[1].actions
        /\ (pc = "AWAIT_ACTIONS" /\ pc' = "AWAIT_SERVICE") =>
            /\ last'.prompt = "actions"
            /\ Len(buffer') = Len(buffer) + 3 + Len(last'.raw)
            /\ SubSeq(buffer', 1, Len(buffer)) = buffer
            /\ buffer'[Len(buffer) + 1].fmt = EffectFmt
            /\ buffer'[Len(buffer) + 2].args[1] =
                  IF service[1].arn_format = None THEN Str_star
                  ELSE embed_variables(region, account_id, service[1].arn_format[1])
            /\ \A k \in 1..Len(last'.raw) :
                  buffer'[Len(buffer) + 3 + k].args =
                      <<service[1].string_prefix, last'.raw[k]>>
      ]_vars

\* C19 witness: two different services were picked one after the other and
\* the third service prompt is pending.
C19_Witness ==
    /\ pc = "AWAIT_SERVICE"
    /\ Len(picks) = 2
    /\ picks[1].service # picks[2].service
    /\ NumStatements(buffer) = 2

====
